---- MODULE Spec2Model ----
(***************************************************************************)
(* Model of the B2 storage adapter (duplicacy_b2storage.go): the           *)
(* translation between the backup engine's flat file view (with the        *)
(* ".fsl" fossil projection) and a versioned object store reached through  *)
(* B2Client.  The adapter is translated from the source; B2Client, whose   *)
(* code is not part of the sources at hand, is modelled from its contract. *)
(***************************************************************************)
EXTENDS Integers, Sequences, FiniteSets, TLC

VARIABLES
    store,    \* the bucket: sequence of versions, in order of creation (oldest first)
    nextId,   \* the next FileID the bucket hands out
    prev,     \* the bucket as it was when the last adapter call started
    last      \* the last adapter call: its arguments, results and client calls

vars == <<store, nextId, prev, last>>

\* ---------------------------------------------------------------- bounds

\* Total number of versions (uploads and hide markers) created on top of
\* what the bucket held when the storage was created.
MaxId == 3

\* The largest global rate limit of the calls that vary the limit.
MaxRate == 4

\* The largest thread count of the calls that vary the limit.
MaxThreads == 3

\* ---------------------------------------------------------------- inputs

Nil == "nil"

\* The stored keys of the model, in the byte order the bucket lists them in.
KeyOrder == <<"chunks/a", "chunks/ab", "snapshots/1/a", "snapshots/1/b", "snapshots/12/c">>

\* The chunk keys.
Keys == {"chunks/a", "chunks/ab"}

\* The snapshot keys: two revisions of snapshot id 1 and one of id 12.
SnapshotKeys == {"snapshots/1/a", "snapshots/1/b", "snapshots/12/c"}

\* Content lengths of the uploads: two values tell two versions apart.
Sizes == {1, 2}

\* The size field the bucket gives a hide marker: it carries no meaning, so
\* the model leaves it open between zero and another value.
MarkerSizes == {0, 3}

\* Values UploadRateLimit() returns; 0 stands for no limit.
RateLimits == {0, 3}

\* Values of client.Threads.
ThreadCounts == {1, 2}

\* Paths handed to DeleteFile and GetFileInfo: every key and its fossil.
Paths == Keys \cup {k \o ".fsl" : k \in Keys}

\* (from, to) pairs handed to MoveFile: hide and unhide of every key, a hide
\* whose source is itself a fossil path, the degenerate empty name, and
\* pairs without any ".fsl" relation.
MovePairs ==
    {<<k, k \o ".fsl">> : k \in Keys} \cup
    {<<k \o ".fsl", k>> : k \in Keys} \cup
    { <<"chunks/a.fsl", "chunks/a.fsl.fsl">>,
      <<"", ".fsl">>,
      <<".fsl", "">>,
      <<"chunks/a", "chunks/ab">>,
      <<"chunks/a", "chunks/a">>,
      <<"chunks/a", "chunks/ab.fsl">>,
      <<"chunks/ab.fsl", "chunks/a">> }

\* Directories handed to ListFiles.
Dirs == {"chunks", "chunks//", "snapshots/", "chunks/a"}

\* The spellings of the snapshots directory handed to ListFiles.
SnapshotDirs == {"snapshots", "snapshots/", "snapshots//"}

\* The buckets FindBucket can find when the storage is created: an empty one,
\* or one that holds a version already (its id is 0), be it a hide marker
\* with nothing beneath it or a snapshot revision file.
InitialBuckets ==
    {<<>>} \cup
    {<<[FileID |-> 0, FileName |-> a[1], Action |-> a[2], Size |-> a[3]]>> :
        a \in {<<"chunks/a", "hide", 0>>, <<"snapshots/1/a", "upload", 1>>}}

\* ---------------------------------------------------------------- strings

HasSuffix(s, suffix) ==
    /\ Len(s) >= Len(suffix)
    /\ SubSeq(s, Len(s) - Len(suffix) + 1, Len(s)) = suffix

HasPrefix(s, prefix) ==
    /\ Len(s) >= Len(prefix)
    /\ SubSeq(s, 1, Len(prefix)) = prefix

\* s[:len(s)-len(".fsl")]
StripFsl(s) == SubSeq(s, 1, Len(s) - Len(".fsl"))

\* What the run reports when a slice expression starts beyond the end of its string.
SlicePanic == "panic: runtime error: slice bounds out of range"

\* s[length:], which panics when length > len(s)
SliceFrom(s, length) ==
    IF length > Len(s) THEN SlicePanic ELSE SubSeq(s, length + 1, Len(s))

\* TrimSlashes that removes one trailing slash only.
TrimSlashesOnce(dir) ==
    IF Len(dir) > 0 /\ SubSeq(dir, Len(dir), Len(dir)) = "/"
    THEN SubSeq(dir, 1, Len(dir) - 1)
    ELSE dir

\* for len(dir) > 0 && dir[len(dir)-1] == '/' { dir = dir[:len(dir)-1] }
RECURSIVE TrimSlashes(_)
TrimSlashes(dir) ==
    IF Len(dir) > 0 /\ SubSeq(dir, Len(dir), Len(dir)) = "/"
    THEN TrimSlashes(SubSeq(dir, 1, Len(dir) - 1))
    ELSE dir

\* ---------------------------------------------------------------- the client

RECURSIVE Reverse(_)
Reverse(s) == IF s = <<>> THEN <<>> ELSE Append(Reverse(Tail(s)), Head(s))

\* The versions of one key, newest first.
VersionsOf(s, name) == Reverse(SelectSeq(s, LAMBDA v : v.FileName = name))

\* What one key contributes to a listing: all its versions, or (without
\* versions) its newest version when that is an upload.
KeyEntries(s, name, includeVersions) ==
    LET vs == VersionsOf(s, name) IN
    IF includeVersions THEN vs
    ELSE IF vs # <<>> /\ Head(vs).Action = "upload" THEN <<Head(vs)>>
    ELSE <<>>

RECURSIVE ListFrom(_, _, _, _, _)
ListFrom(s, i, startFileName, singleFile, includeVersions) ==
    IF i > Len(KeyOrder) THEN <<>>
    ELSE LET k == KeyOrder[i]
             match == IF singleFile THEN k = startFileName
                                    ELSE HasPrefix(k, startFileName)
         IN (IF match THEN KeyEntries(s, k, includeVersions) ELSE <<>>)
            \o ListFrom(s, i + 1, startFileName, singleFile, includeVersions)

\* B2Client.ListFileNames: entries in key order, newest first within a key.
ClientListFileNames(s, startFileName, singleFile, includeVersions) ==
    ListFrom(s, 1, startFileName, singleFile, includeVersions)

\* B2Client.DeleteFile: removes the version with that name and id, if present.
ClientDeleteFile(s, fileName, fileID) ==
    SelectSeq(s, LAMBDA v : ~(v.FileName = fileName /\ v.FileID = fileID))

\* B2Client.HideFile: a hide marker on top of a key whose newest version is
\* an upload; an error, and no marker, otherwise.
ClientHideFile(s, id, fileName, markerSize) ==
    LET vs == VersionsOf(s, fileName) IN
    IF vs # <<>> /\ Head(vs).Action = "upload"
    THEN [store |-> Append(s, [FileID |-> id, FileName |-> fileName,
                               Action |-> "hide", Size |-> markerSize]),
          err |-> Nil]
    ELSE [store |-> s, err |-> "HideFile: not present"]

\* B2Client.UploadFile: a new upload version of the key.
ClientUploadFile(s, id, fileName, size) ==
    Append(s, [FileID |-> id, FileName |-> fileName,
               Action |-> "upload", Size |-> size])

\* B2Client.DownloadFile: the newest version of the key when it is an upload
\* (a sequence of one version), nothing otherwise.
ClientDownloadFile(s, fileName) == KeyEntries(s, fileName, FALSE)

DownloadCall(fileName) == [op |-> "DownloadFile", name |-> fileName]

CopyCall(size, rateLimit) == [op |-> "RateLimitedCopy", size |-> size, rateLimit |-> rateLimit]

ListCall(startFileName, singleFile, includeVersions) ==
    [op |-> "ListFileNames", name |-> startFileName,
     singleFile |-> singleFile, includeVersions |-> includeVersions]

DeleteCall(fileName, fileID) ==
    [op |-> "DeleteFile", name |-> fileName, id |-> fileID]

HideCall(fileName) == [op |-> "HideFile", name |-> fileName]

UploadCall(fileName, size, rateLimit) ==
    [op |-> "UploadFile", name |-> fileName, size |-> size, rateLimit |-> rateLimit]

\* ---------------------------------------------------------------- the adapter

\* strings.Split(name, "/")[0]
RECURSIVE FirstSegment(_)
FirstSegment(name) ==
    IF name = "" \/ SubSeq(name, 1, 1) = "/" THEN ""
    ELSE SubSeq(name, 1, 1) \o FirstSegment(SubSeq(name, 2, Len(name)))

\* The keys of the subDirs map built from the entries.
SubDirs(entries, length) ==
    {FirstSegment(SliceFrom(entries[i].FileName, length)) \o "/" : i \in 1..Len(entries)}

\* Ranging over a Go map yields its keys in any order.
Orderings(S) ==
    {f \in [1..Cardinality(S) -> S] : \A i, j \in 1..Cardinality(S) : f[i] = f[j] => i = j}

\* LogicalName that never marks a fossil.
LogicalNameBare(entry, length) == SliceFrom(entry.FileName, length)

\* The name the "chunks" branch appends for an entry.
LogicalName(entry, length) ==
    IF entry.Action = "hide"
    THEN SliceFrom(entry.FileName, length) \o ".fsl"
    ELSE SliceFrom(entry.FileName, length)

\* ChunkWalk without the lastFile test: every version is appended.
RECURSIVE ChunkWalkEveryVersion(_, _, _, _, _, _)
ChunkWalkEveryVersion(entries, i, length, lastFile, files, sizes) ==
    IF i > Len(entries) THEN [files |-> files, sizes |-> sizes]
    ELSE LET entry == entries[i] IN
         ChunkWalkEveryVersion(entries, i + 1, length, entry.FileName,
                               Append(files, LogicalName(entry, length)),
                               Append(sizes, entry.Size))

\* ChunkWalk with the size appended ahead of the lastFile test.
RECURSIVE ChunkWalkSizesFirst(_, _, _, _, _, _)
ChunkWalkSizesFirst(entries, i, length, lastFile, files, sizes) ==
    IF i > Len(entries) THEN [files |-> files, sizes |-> sizes]
    ELSE LET entry == entries[i] IN
         IF entry.FileName = lastFile
         THEN ChunkWalkSizesFirst(entries, i + 1, length, lastFile, files,
                                  Append(sizes, entry.Size))
         ELSE ChunkWalkSizesFirst(entries, i + 1, length, entry.FileName,
                                  Append(files, LogicalName(entry, length)),
                                  Append(sizes, entry.Size))

\* The loop of the "chunks" branch, from entry i on.
RECURSIVE ChunkWalk(_, _, _, _, _, _)
ChunkWalk(entries, i, length, lastFile, files, sizes) ==
    IF i > Len(entries) THEN [files |-> files, sizes |-> sizes]
    ELSE LET entry == entries[i] IN
         IF entry.FileName = lastFile
         THEN ChunkWalk(entries, i + 1, length, lastFile, files, sizes)
         ELSE ChunkWalk(entries, i + 1, length, entry.FileName,
                        Append(files, LogicalName(entry, length)),
                        Append(sizes, entry.Size))

\* One of the entries is shorter than the prefix ListFiles slices off it.
SlicePanics(entries, length) ==
    \E i \in 1..Len(entries) : SliceFrom(entries[i].FileName, length) = SlicePanic

\* ListFiles asks for versions only under "chunks".
ListIncludeVersions(dir) == dir = "chunks"

\* B2Storage.ListFiles: the results the call can return (one, except for
\* the order of the "snapshots" listing). A panic returns nothing: its result
\* carries SlicePanic in err.
ListFiles(s, dirArg, fail) ==
    LET dir == TrimSlashes(dirArg)
        length == Len(dir) + 1
        includeVersions == ListIncludeVersions(dir)
        calls == <<ListCall(dir, FALSE, includeVersions)>>
        entries == ClientListFileNames(s, dir, FALSE, includeVersions)
    IN  IF fail = 1
        THEN {[files |-> <<>>, sizes |-> <<>>, err |-> "ListFileNames failed", calls |-> calls]}
        ELSE IF SlicePanics(entries, length)
        THEN {[files |-> <<>>, sizes |-> <<>>, err |-> SlicePanic, calls |-> calls]}
        ELSE IF dir = "snapshots"
        THEN {[files |-> f, sizes |-> <<>>, err |-> Nil, calls |-> calls] :
                 f \in Orderings(SubDirs(entries, length))}
        ELSE IF dir = "chunks"
        THEN LET w == ChunkWalk(entries, 1, length, "", <<>>, <<>>)
             IN {[files |-> w.files, sizes |-> w.sizes, err |-> Nil, calls |-> calls]}
        ELSE {[files |-> [i \in 1..Len(entries) |-> SliceFrom(entries[i].FileName, length)],
               sizes |-> <<>>, err |-> Nil, calls |-> calls]}

\* SkipEntry without the test for the hide marker.
SkipEntryOtherNames(entry, filePath, toBeDeleted) == entry.FileName # filePath

\* entry.FileName != filePath || (!toBeDeleted && entry.Action != "hide")
SkipEntry(entry, filePath, toBeDeleted) ==
    entry.FileName # filePath \/ (~toBeDeleted /\ entry.Action # "hide")

\* FossilLoop that returns after its first delete.
RECURSIVE FossilLoopOnce(_, _, _, _, _, _, _)
FossilLoopOnce(s, entries, i, filePath, toBeDeleted, calls, fail) ==
    IF i > Len(entries) THEN [store |-> s, err |-> Nil, calls |-> calls]
    ELSE LET entry == entries[i] IN
         IF SkipEntry(entry, filePath, toBeDeleted)
         THEN FossilLoopOnce(s, entries, i + 1, filePath, toBeDeleted, calls, fail)
         ELSE LET issued == Append(calls, DeleteCall(filePath, entry.FileID)) IN
              IF fail = Len(issued)
              THEN [store |-> s, err |-> "DeleteFile failed", calls |-> issued]
              ELSE [store |-> ClientDeleteFile(s, filePath, entry.FileID),
                    err |-> Nil, calls |-> issued]

\* The loop of the fossil branch of DeleteFile, from entry i on.
RECURSIVE FossilLoop(_, _, _, _, _, _, _)
FossilLoop(s, entries, i, filePath, toBeDeleted, calls, fail) ==
    IF i > Len(entries) THEN [store |-> s, err |-> Nil, calls |-> calls]
    ELSE LET entry == entries[i] IN
         IF SkipEntry(entry, filePath, toBeDeleted)
         THEN FossilLoop(s, entries, i + 1, filePath, toBeDeleted, calls, fail)
         ELSE LET issued == Append(calls, DeleteCall(filePath, entry.FileID)) IN
              IF fail = Len(issued)
              THEN [store |-> s, err |-> "DeleteFile failed", calls |-> issued]
              ELSE FossilLoop(ClientDeleteFile(s, filePath, entry.FileID), entries,
                              i + 1, filePath, TRUE, issued, fail)

\* DeleteFossil with toBeDeleted starting out true: the walk deletes from the
\* first entry of the name on, not from the first hide marker on.
DeleteFossilFromTop(s, fossilPath, fail) ==
    LET filePath == StripFsl(fossilPath)
        calls == <<ListCall(filePath, TRUE, TRUE)>>
    IN  IF fail = 1
        THEN [store |-> s, err |-> "ListFileNames failed", calls |-> calls]
        ELSE FossilLoop(s, ClientListFileNames(s, filePath, TRUE, TRUE), 1,
                        filePath, TRUE, calls, fail)

\* B2Storage.DeleteFile, fossil branch.
DeleteFossil(s, fossilPath, fail) ==
    LET filePath == StripFsl(fossilPath)
        calls == <<ListCall(filePath, TRUE, TRUE)>>
    IN  IF fail = 1
        THEN [store |-> s, err |-> "ListFileNames failed", calls |-> calls]
        ELSE FossilLoop(s, ClientListFileNames(s, filePath, TRUE, TRUE), 1,
                        filePath, FALSE, calls, fail)

\* NormalListing by prefix instead of by the single name.
NormalListingByPrefix(s, filePath) == ClientListFileNames(s, filePath, FALSE, FALSE)

\* NormalListing with the versions, hide markers included.
NormalListingWithVersions(s, filePath) == ClientListFileNames(s, filePath, TRUE, TRUE)

\* The entries DeleteFile asks for on a path that is no fossil.
NormalListing(s, filePath) == ClientListFileNames(s, filePath, TRUE, FALSE)

\* B2Storage.DeleteFile, branch of the paths that are no fossil.
DeleteNormal(s, filePath, fail) ==
    LET calls == <<ListCall(filePath, TRUE, FALSE)>>
        entries == NormalListing(s, filePath)
    IN  IF fail = 1
        THEN [store |-> s, err |-> "ListFileNames failed", calls |-> calls]
        ELSE IF Len(entries) = 0
        THEN [store |-> s, err |-> Nil, calls |-> calls]
        ELSE LET issued == Append(calls, DeleteCall(filePath, entries[1].FileID)) IN
             IF fail = 2
             THEN [store |-> s, err |-> "DeleteFile failed", calls |-> issued]
             ELSE [store |-> ClientDeleteFile(s, filePath, entries[1].FileID),
                   err |-> Nil, calls |-> issued]

\* B2Storage.DeleteFile
DeleteFile(s, filePath, fail) ==
    IF HasSuffix(filePath, ".fsl")
    THEN DeleteFossil(s, filePath, fail)
    ELSE DeleteNormal(s, filePath, fail)

\* MoveTarget without the checks that the two paths differ by ".fsl" only.
MoveTargetUnchecked(from, to) ==
    IF HasSuffix(from, ".fsl") THEN to
    ELSE IF HasSuffix(to, ".fsl") THEN from
    ELSE ""

\* MoveTarget with the two branches' results exchanged.
MoveTargetSwapped(from, to) ==
    IF HasSuffix(from, ".fsl")
    THEN (IF from # to \o ".fsl" THEN "" ELSE from)
    ELSE IF HasSuffix(to, ".fsl")
    THEN (IF to # from \o ".fsl" THEN "" ELSE to)
    ELSE ""

\* The filePath MoveFile works on; "" when the pair is not supported.
MoveTarget(from, to) ==
    IF HasSuffix(from, ".fsl")
    THEN (IF from # to \o ".fsl" THEN "" ELSE to)
    ELSE IF HasSuffix(to, ".fsl")
    THEN (IF to # from \o ".fsl" THEN "" ELSE from)
    ELSE ""

\* MoveFile, branch filePath == from: hide.
MoveHide(s, id, from, fail, markerSize) ==
    LET calls == <<HideCall(from)>>
        h == ClientHideFile(s, id, from, markerSize)
    IN  IF fail = 1
        THEN [store |-> s, err |-> "HideFile failed", fatal |-> FALSE, calls |-> calls]
        ELSE [store |-> h.store, err |-> h.err, fatal |-> FALSE, calls |-> calls]

\* NothingToUnhide with the test of the action inverted.
NothingToUnhideInverted(entries, filePath) ==
    Len(entries) = 0 \/ entries[1].FileName # filePath \/ entries[1].Action = "hide"

\* NothingToUnhide without the test of the action.
NothingToUnhideAnyAction(entries, filePath) ==
    Len(entries) = 0 \/ entries[1].FileName # filePath

\* The unhide branch returns nil without deleting anything.
NothingToUnhide(entries, filePath) ==
    Len(entries) = 0 \/ entries[1].FileName # filePath \/ entries[1].Action # "hide"

\* MoveFile, branch filePath == to: remove the hide marker.
MoveUnhide(s, filePath, fail) ==
    LET calls == <<ListCall(filePath, TRUE, TRUE)>>
        entries == ClientListFileNames(s, filePath, TRUE, TRUE)
    IN  IF fail = 1
        THEN [store |-> s, err |-> "ListFileNames failed", fatal |-> FALSE, calls |-> calls]
        ELSE IF NothingToUnhide(entries, filePath)
        THEN [store |-> s, err |-> Nil, fatal |-> FALSE, calls |-> calls]
        ELSE LET issued == Append(calls, DeleteCall(filePath, entries[1].FileID)) IN
             IF fail = 2
             THEN [store |-> s, err |-> "DeleteFile failed", fatal |-> FALSE, calls |-> issued]
             ELSE [store |-> ClientDeleteFile(s, filePath, entries[1].FileID),
                   err |-> Nil, fatal |-> FALSE, calls |-> issued]

\* B2Storage.MoveFile
MoveFile(s, id, from, to, fail, markerSize) ==
    LET filePath == MoveTarget(from, to) IN
    IF filePath = ""
    THEN [store |-> s, err |-> Nil, fatal |-> TRUE, calls |-> <<>>]
    ELSE IF filePath = from
    THEN MoveHide(s, id, from, fail, markerSize)
    ELSE MoveUnhide(s, filePath, fail)

\* CreateDirectory that uploads an empty placeholder object for the directory.
CreateDirectoryPlaceholder(s, dir) ==
    [store |-> ClientUploadFile(s, 0, dir, 0), err |-> Nil,
     calls |-> <<UploadCall(dir, 0, 0)>>]

\* B2Storage.CreateDirectory
CreateDirectory(s, dir) == [store |-> s, err |-> Nil, calls |-> <<>>]

\* StatListing that never asks for versions.
StatListingNoVersions(s, filePath, isFossil) == ClientListFileNames(s, filePath, TRUE, FALSE)

\* StatListing that always asks for versions.
StatListingAllVersions(s, filePath, isFossil) == ClientListFileNames(s, filePath, TRUE, TRUE)

\* The entries GetFileInfo asks for.
StatListing(s, filePath, isFossil) == ClientListFileNames(s, filePath, TRUE, isFossil)

\* StatMisses without the comparison of the name.
StatMissesEmptyOnly(entries, filePath) == Len(entries) = 0

\* len(entries) == 0 || entries[0].FileName != filePath
StatMisses(entries, filePath) == Len(entries) = 0 \/ entries[1].FileName # filePath

\* What GetFileInfo makes of the entries the listing returned.
StatResult(entries, filePath, isFossil, calls) ==
    LET no == [exist |-> FALSE, isDir |-> FALSE, size |-> 0, err |-> Nil, calls |-> calls]
    IN  IF StatMisses(entries, filePath)
        THEN no
        ELSE IF isFossil /\ entries[1].Action # "hide"
        THEN no
        ELSE [no EXCEPT !.exist = TRUE, !.size = entries[1].Size]

\* B2Storage.GetFileInfo
GetFileInfo(s, path, fail) ==
    LET isFossil == HasSuffix(path, ".fsl")
        filePath == IF isFossil THEN StripFsl(path) ELSE path
        calls == <<ListCall(filePath, TRUE, isFossil)>>
    IN  IF fail = 1
        THEN [exist |-> FALSE, isDir |-> FALSE, size |-> 0,
              err |-> "ListFileNames failed", calls |-> calls]
        ELSE StatResult(StatListing(s, filePath, isFossil), filePath, isFossil, calls)

\* The quotient a / b of two ints: truncated toward zero.
GoDiv(a, b) ==
    IF (a >= 0) = (b >= 0)
    THEN (IF a >= 0 THEN a ELSE 0 - a) \div (IF b >= 0 THEN b ELSE 0 - b)
    ELSE 0 - ((IF a >= 0 THEN a ELSE 0 - a) \div (IF b >= 0 THEN b ELSE 0 - b))

\* storage.UploadRateLimit()/storage.client.Threads
UploadRate(limit, nThreads) == GoDiv(limit, nThreads)

\* B2Storage.UploadFile
UploadFile(s, id, filePath, size, limit, nThreads, fail) ==
    LET calls == <<UploadCall(filePath, size, UploadRate(limit, nThreads))>>
    IN  IF fail = 1
        THEN [store |-> s, err |-> "UploadFile failed", calls |-> calls]
        ELSE [store |-> ClientUploadFile(s, id, filePath, size), err |-> Nil, calls |-> calls]

\* storage.DownloadRateLimit/storage.client.Threads
DownloadRate(limit, nThreads) == GoDiv(limit, nThreads)

\* The RateLimitedCopy call of DownloadFile and the return that follows it:
\* calls are the client calls issued before it, copy is the call, which reads
\* the body the request returned; size is the number of bytes in the chunk.
RateLimitedCopy(calls, copy, failed) ==
    IF failed
    THEN [err |-> "RateLimitedCopy failed", calls |-> Append(calls, copy), size |-> 0]
    ELSE [err |-> Nil, calls |-> Append(calls, copy), size |-> copy.size]

\* B2Storage.DownloadFile
DownloadFile(s, filePath, limit, nThreads, fail) ==
    LET calls == <<DownloadCall(filePath)>>
        found == ClientDownloadFile(s, filePath)
    IN  IF fail = 1
        THEN [err |-> "DownloadFile failed", calls |-> calls, size |-> 0]
        ELSE IF found = <<>>
        THEN [err |-> "DownloadFile: not present", calls |-> calls, size |-> 0]
        ELSE RateLimitedCopy(calls,
                             CopyCall(found[1].Size, DownloadRate(limit, nThreads)),
                             fail = 2)

\* ---------------------------------------------------------------- the state machine

\* The record of an adapter call; the fields a call does not set keep these values.
\* A call that is followed client call by client call has its position in pc
\* ("list", "walk", "done", "crashed"), the entries it listed, the index pos of
\* the next entry and the flag toBeDeleted of its loop; uploaded holds the
\* uploads of another worker that landed while it ran and removed the ids of
\* the versions other workers deleted meanwhile; fault is the position in
\* calls of the client call that was made to fail.  A DeleteFile or MoveFile
\* that has listed holds in plan the deletes it has yet to issue, a
\* DownloadFile whose request returned holds the copy; landed tells
\* that a client call of another worker reached the bucket in the meantime;
\* prev, the bucket the call started from, follows the bucket from then on.
NoCall ==
    [op |-> "none", a |-> "", b |-> "", err |-> Nil, fatal |-> FALSE, calls |-> <<>>,
     files |-> <<>>, sizes |-> <<>>, exist |-> FALSE, isDir |-> FALSE, size |-> 0,
     limit |-> 0, nThreads |-> 0,
     pc |-> "", entries |-> <<>>, pos |-> 0, toBeDeleted |-> FALSE, uploaded |-> {},
     fault |-> 0, plan |-> <<>>, landed |-> FALSE, removed |-> {}]

\* The position, among the client calls a call issued, of the one that was
\* made to fail (0: none was).
FaultAt(fail, calls) == IF fail \in 1..Len(calls) THEN fail ELSE 0

\* The state after CreateB2Storage: the bucket as FindBucket found it.
Init ==
    /\ store \in InitialBuckets
    /\ nextId = 1
    /\ prev = store
    /\ last = NoCall

\* The engine issues a call when the call before it has returned; LOG_FATAL
\* and a panic end the program, so no call follows either.
Idle == last.op = "none"

\* The id the bucket has handed out, if the call created a version.
IdAfter(s) == IF \E i \in 1..Len(s) : s[i].FileID = nextId THEN nextId + 1 ELSE nextId

CallUploadFile ==
    \E filePath \in Keys, size \in Sizes, limit \in RateLimits,
       nThreads \in ThreadCounts, fail \in 0..1 :
        LET r == UploadFile(store, nextId, filePath, size, limit, nThreads, fail) IN
        /\ Idle
        /\ nextId <= MaxId
        /\ store' = r.store
        /\ nextId' = IdAfter(r.store)
        /\ prev' = store
        /\ last' = [NoCall EXCEPT !.op = "UploadFile", !.a = filePath, !.size = size,
                                  !.limit = limit, !.nThreads = nThreads,
                                  !.err = r.err, !.calls = r.calls,
                                  !.fault = FaultAt(fail, r.calls)]

\* PlanAfter that goes on with the next delete after a failed one.
PlanAfterGoesOn(plan, failed) == Tail(plan)

\* What the loop has yet to issue after a delete: nothing when the delete
\* failed (the error is returned at once), the rest of the plan otherwise.
PlanAfter(plan, failed) == IF failed THEN <<>> ELSE Tail(plan)

\* The adapter takes no lock, and a call of several client calls reaches the
\* bucket one client call at a time.  The record of a call once its first
\* client call is over: r is what the call does with the bucket it saw.  The
\* client calls of r after the first (the deletes of the listed entries, the
\* copy of the body a download request returned) depend on what the first
\* returned alone; the call has returned when there is none, and has them
\* still to issue otherwise.
AfterListing(rec, r, fail) ==
    IF Len(r.calls) <= 1
    THEN [rec EXCEPT !.err = r.err, !.calls = r.calls, !.pc = "done",
                     !.fault = FaultAt(fail, r.calls)]
    ELSE [rec EXCEPT !.calls = <<Head(r.calls)>>, !.plan = Tail(r.calls), !.pc = "walk"]

\* The bucket once the first client call of a call is over.
BucketAfterListing(s, r) == IF Len(r.calls) <= 1 THEN r.store ELSE s

\* DeleteFile up to the return of its ListFileNames call.
CallDeleteFile ==
    \E filePath \in Paths, fail \in 0..1 :
        LET r == DeleteFile(store, filePath, fail) IN
        /\ Idle
        /\ prev' = store
        /\ last' = AfterListing([NoCall EXCEPT !.op = "DeleteFile", !.a = filePath], r, fail)
        /\ UNCHANGED <<store, nextId>>

\* MoveFile: the fatal exit, the HideFile call, or the unhide branch up to
\* the return of its ListFileNames call.
CallMoveFile ==
    \E pair \in MovePairs, fail \in 0..1, markerSize \in MarkerSizes :
        LET r == MoveFile(store, nextId, pair[1], pair[2], fail, markerSize) IN
        /\ Idle
        /\ IdAfter(r.store) <= MaxId + 1
        /\ store' = BucketAfterListing(store, r)
        /\ nextId' = IdAfter(BucketAfterListing(store, r))
        /\ prev' = store
        /\ last' = AfterListing([NoCall EXCEPT !.op = "MoveFile", !.a = pair[1],
                                               !.b = pair[2], !.fatal = r.fatal], r, fail)

\* The next DeleteFile client call of the call in progress.
DeleteStep ==
    \E failed \in BOOLEAN :
        LET call == Head(last.plan)
            issued == Append(last.calls, call)
            rest == PlanAfter(last.plan, failed)
        IN  /\ last.pc = "walk"
            /\ last.plan # <<>>
            /\ store' = IF failed THEN store
                        ELSE ClientDeleteFile(store, call.name, call.id)
            /\ last' = [last EXCEPT !.calls = issued, !.plan = rest,
                                    !.err = IF failed THEN "DeleteFile failed" ELSE @,
                                    !.fault = IF failed THEN Len(issued) ELSE @,
                                    !.pc = IF rest = <<>> THEN "done" ELSE "walk"]
            /\ UNCHANGED <<nextId, prev>>

\* A client call of another worker reaches the bucket between two client
\* calls of the call in progress: an upload,
OtherUploadFile ==
    \E filePath \in Keys, size \in Sizes :
        /\ last.pc = "walk"
        /\ last.plan # <<>>
        /\ nextId <= MaxId
        /\ store' = ClientUploadFile(store, nextId, filePath, size)
        /\ nextId' = nextId + 1
        /\ last' = [last EXCEPT !.landed = TRUE]
        /\ prev' = store'

\* a hide marker,
OtherHideFile ==
    \E filePath \in Keys, markerSize \in MarkerSizes :
        LET h == ClientHideFile(store, nextId, filePath, markerSize) IN
        /\ last.pc = "walk"
        /\ last.plan # <<>>
        /\ nextId <= MaxId
        /\ h.err = Nil
        /\ store' = h.store
        /\ nextId' = nextId + 1
        /\ last' = [last EXCEPT !.landed = TRUE]
        /\ prev' = store'

\* or the delete of a version that worker listed.
OtherDeleteFile ==
    \E i \in 1..Len(store) :
        /\ last.pc = "walk"
        /\ last.plan # <<>>
        /\ store' = ClientDeleteFile(store, store[i].FileName, store[i].FileID)
        /\ last' = [last EXCEPT !.landed = TRUE]
        /\ prev' = store'
        /\ UNCHANGED nextId

CallCreateDirectory ==
    \E dir \in Dirs :
        LET r == CreateDirectory(store, dir) IN
        /\ Idle
        /\ store' = r.store
        /\ prev' = store
        /\ last' = [NoCall EXCEPT !.op = "CreateDirectory", !.a = dir,
                                  !.err = r.err, !.calls = r.calls]
        /\ UNCHANGED nextId

CallListFiles ==
    \E dir \in Dirs, fail \in 0..1 :
        LET results == ListFiles(store, dir, fail) IN
        /\ Idle
        /\ \E r \in results :
            /\ prev' = store
            /\ last' = [NoCall EXCEPT !.op = "ListFiles", !.a = dir, !.err = r.err,
                                      !.calls = r.calls, !.files = r.files,
                                      !.sizes = r.sizes,
                                      !.fault = FaultAt(fail, r.calls)]
            /\ UNCHANGED <<store, nextId>>

CallGetFileInfo ==
    \E filePath \in Paths, fail \in 0..1 :
        LET r == GetFileInfo(store, filePath, fail) IN
        /\ Idle
        /\ prev' = store
        /\ last' = [NoCall EXCEPT !.op = "GetFileInfo", !.a = filePath, !.err = r.err,
                                  !.calls = r.calls, !.exist = r.exist,
                                  !.isDir = r.isDir, !.size = r.size,
                                  !.fault = FaultAt(fail, r.calls)]
        /\ UNCHANGED <<store, nextId>>

\* The call returns to the engine, which has looked at the results.
Return ==
    /\ last.op # "none"
    /\ ~last.fatal
    /\ last.err # SlicePanic
    /\ last.pc # "walk"
    /\ last' = NoCall
    /\ prev' = store
    /\ UNCHANGED <<store, nextId>>

Next ==
    \/ CallUploadFile
    \/ CallDeleteFile
    \/ CallMoveFile
    \/ CallCreateDirectory
    \/ CallListFiles
    \/ CallGetFileInfo
    \/ DeleteStep
    \/ OtherUploadFile
    \/ OtherHideFile
    \/ OtherDeleteFile
    \/ Return

Spec == Init /\ [][Next]_vars

\* ---------------------------------------------------------------- the snapshots directory

\* The engine writes a snapshot revision file.
CallUploadSnapshot ==
    \E filePath \in SnapshotKeys, size \in Sizes :
        LET r == UploadFile(store, nextId, filePath, size, 0, 1, 0) IN
        /\ Idle
        /\ nextId <= MaxId
        /\ store' = r.store
        /\ nextId' = IdAfter(r.store)
        /\ prev' = store
        /\ last' = [NoCall EXCEPT !.op = "UploadFile", !.a = filePath, !.size = size,
                                  !.nThreads = 1, !.err = r.err, !.calls = r.calls]

\* The engine deletes a snapshot revision file: DeleteFile up to the return
\* of its ListFileNames call.
CallDeleteSnapshot ==
    \E filePath \in SnapshotKeys :
        LET r == DeleteFile(store, filePath, 0) IN
        /\ Idle
        /\ prev' = store
        /\ last' = AfterListing([NoCall EXCEPT !.op = "DeleteFile", !.a = filePath], r, 0)
        /\ UNCHANGED <<store, nextId>>

\* Another worker's upload of a revision file reaches the bucket between the
\* two client calls of the DeleteFile in progress.
OtherUploadSnapshot ==
    \E filePath \in SnapshotKeys, size \in Sizes :
        /\ last.pc = "walk"
        /\ last.plan # <<>>
        /\ nextId <= MaxId
        /\ store' = ClientUploadFile(store, nextId, filePath, size)
        /\ nextId' = nextId + 1
        /\ last' = [last EXCEPT !.landed = TRUE]
        /\ prev' = store'

\* The engine lists the snapshot ids.
CallListSnapshots ==
    \E dir \in SnapshotDirs, fail \in 0..1 :
        LET results == ListFiles(store, dir, fail) IN
        /\ Idle
        /\ \E r \in results :
            /\ prev' = store
            /\ last' = [NoCall EXCEPT !.op = "ListFiles", !.a = dir, !.err = r.err,
                                      !.calls = r.calls, !.files = r.files,
                                      !.sizes = r.sizes,
                                      !.fault = FaultAt(fail, r.calls)]
            /\ UNCHANGED <<store, nextId>>

NextSnapshots ==
    \/ CallUploadSnapshot
    \/ CallDeleteSnapshot
    \/ CallListSnapshots
    \/ DeleteStep
    \/ OtherUploadSnapshot
    \/ OtherDeleteFile
    \/ Return

SpecSnapshots == Init /\ [][NextSnapshots]_vars

\* ---------------------------------------------------------------- rate limits

\* UploadFile with the limit UploadRateLimit() returns at the time of the call
\* and the thread count of the client ranging over all small values; nothing
\* in the adapter keeps the limit from being negative.
CallUploadRated ==
    \E filePath \in Keys, size \in Sizes, limit \in (0 - MaxRate)..MaxRate,
       nThreads \in 1..MaxThreads, fail \in 0..1 :
        LET r == UploadFile(store, nextId, filePath, size, limit, nThreads, fail) IN
        /\ Idle
        /\ nextId <= MaxId
        /\ store' = r.store
        /\ nextId' = IdAfter(r.store)
        /\ prev' = store
        /\ last' = [NoCall EXCEPT !.op = "UploadFile", !.a = filePath, !.size = size,
                                  !.limit = limit, !.nThreads = nThreads,
                                  !.err = r.err, !.calls = r.calls,
                                  !.fault = FaultAt(fail, r.calls)]

\* DownloadFile up to the return of the client's DownloadFile call: the
\* request has failed, or its body is at hand and the copy is still to do.
CallDownloadFile ==
    \E filePath \in Keys, limit \in (0 - MaxRate)..MaxRate, nThreads \in 1..MaxThreads,
       fail \in 0..1 :
        LET r == DownloadFile(store, filePath, limit, nThreads, fail) IN
        /\ Idle
        /\ prev' = store
        /\ last' = AfterListing([NoCall EXCEPT !.op = "DownloadFile", !.a = filePath,
                                               !.limit = limit, !.nThreads = nThreads],
                                r, fail)
        /\ UNCHANGED <<store, nextId>>

\* The RateLimitedCopy of the download in progress, and its return: the body
\* is the one the request returned, whatever reached the bucket since.
CopyStep ==
    \E failed \in BOOLEAN :
        LET r == RateLimitedCopy(last.calls, Head(last.plan), failed) IN
        /\ last.op = "DownloadFile"
        /\ last.pc = "walk"
        /\ last.plan # <<>>
        /\ last' = [last EXCEPT !.calls = r.calls, !.plan = <<>>, !.err = r.err,
                                !.size = r.size,
                                !.fault = IF failed THEN Len(r.calls) ELSE @,
                                !.pc = "done"]
        /\ UNCHANGED <<store, nextId, prev>>

NextRates ==
    \/ CallUploadRated
    \/ CallDownloadFile
    \/ CopyStep
    \/ OtherUploadFile
    \/ OtherHideFile
    \/ OtherDeleteFile
    \/ Return

SpecRates == Init /\ [][NextRates]_vars

\* ---------------------------------------------------------------- concurrent workers

\* The adapter holds no lock: a worker's DeleteFile of a fossil is a listing
\* followed by deletes, and the client calls of another worker land between
\* them.  One worker's fossil delete is followed client call by client call;
\* the other workers' calls reach the bucket one client call at a time: an
\* UploadFile, the HideFile of a MoveFile, and the client DeleteFile calls of
\* their DeleteFile and unhiding MoveFile calls, each on a version its caller
\* listed at some earlier moment.

\* NextToDelete that passes over the hide marker and starts beneath it.
RECURSIVE NextToDeleteBeneath(_, _, _, _)
NextToDeleteBeneath(entries, i, filePath, toBeDeleted) ==
    IF i > Len(entries) THEN i
    ELSE IF entries[i].FileName = filePath /\ toBeDeleted THEN i
    ELSE NextToDeleteBeneath(entries, i + 1, filePath,
                             toBeDeleted \/ (entries[i].FileName = filePath
                                             /\ entries[i].Action = "hide"))

\* The index of the next entry, from i on, the fossil loop does not skip;
\* Len(entries) + 1 when it skips all of them.
RECURSIVE NextToDelete(_, _, _, _)
NextToDelete(entries, i, filePath, toBeDeleted) ==
    IF i > Len(entries) THEN i
    ELSE IF SkipEntry(entries[i], filePath, toBeDeleted)
    THEN NextToDelete(entries, i + 1, filePath, toBeDeleted)
    ELSE i

\* A worker calls DeleteFile on the fossil of a chunk key.
StartDeleteFossil ==
    \E k \in Keys :
        /\ Idle
        /\ last' = [NoCall EXCEPT !.op = "DeleteFile", !.a = k \o ".fsl", !.pc = "list"]
        /\ prev' = store
        /\ UNCHANGED <<store, nextId>>

\* Its ListFileNames call: entries keeps what the listing saw.
ListStep ==
    \E failed \in BOOLEAN :
        LET filePath == StripFsl(last.a)
            calls == <<ListCall(filePath, TRUE, TRUE)>>
        IN  /\ last.pc = "list"
            /\ last' = IF failed
                       THEN [last EXCEPT !.calls = calls, !.err = "ListFileNames failed",
                                         !.pc = "done"]
                       ELSE [last EXCEPT !.calls = calls, !.pc = "walk", !.pos = 1,
                                         !.entries = ClientListFileNames(store, filePath,
                                                                         TRUE, TRUE)]
            /\ prev' = store
            /\ UNCHANGED <<store, nextId>>

\* The loop up to and including its next DeleteFile call, or to its end.
WalkStep ==
    \E failed \in BOOLEAN :
        LET filePath == StripFsl(last.a)
            j == NextToDelete(last.entries, last.pos, filePath, last.toBeDeleted)
        IN  /\ last.pc = "walk"
            /\ IF j > Len(last.entries)
               THEN /\ ~failed
                    /\ last' = [last EXCEPT !.pc = "done", !.pos = j]
                    /\ UNCHANGED store
               ELSE LET issued == Append(last.calls,
                                         DeleteCall(filePath, last.entries[j].FileID))
                    IN  IF failed
                        THEN /\ last' = [last EXCEPT !.calls = issued, !.pc = "done",
                                                     !.err = "DeleteFile failed"]
                             /\ UNCHANGED store
                        ELSE /\ last' = [last EXCEPT !.calls = issued, !.pos = j + 1,
                                                     !.toBeDeleted = TRUE]
                             /\ store' = ClientDeleteFile(store, filePath,
                                                          last.entries[j].FileID)
            /\ prev' = store'
            /\ UNCHANGED nextId

\* The process dies between two client calls of the DeleteFile.
Crash ==
    /\ last.pc = "walk"
    /\ last' = [last EXCEPT !.pc = "crashed"]
    /\ UNCHANGED <<store, nextId, prev>>

\* The DeleteFile has returned, or the engine starts again after the crash.
ReturnDelete ==
    /\ last.pc \in {"done", "crashed"}
    /\ last' = NoCall
    /\ prev' = store
    /\ UNCHANGED <<store, nextId>>

\* The calls of the other workers reach the bucket while no DeleteFile is
\* followed, before its listing, and between two of its client calls; one
\* that lands after its last client call lands after its return.  In this
\* part prev follows the bucket.
OthersRun == last.pc \notin {"done", "crashed"}

\* Another worker's UploadFile: one client call, at any moment.  While the
\* DeleteFile runs, the upload is noted with the number of client calls the
\* DeleteFile had issued when it landed.
WorkerUploadFile ==
    \E filePath \in Keys, size \in Sizes :
        LET r == UploadFile(store, nextId, filePath, size, 0, 1, 0) IN
        /\ nextId <= MaxId
        /\ OthersRun
        /\ store' = r.store
        /\ nextId' = IdAfter(r.store)
        /\ last' = IF Idle THEN last
                   ELSE [last EXCEPT !.uploaded = @ \cup
                            {[id |-> nextId, name |-> filePath, at |-> Len(last.calls)]}]
        /\ prev' = store'

\* Another worker's MoveFile(n, n.fsl) that puts a marker: one client call,
\* at any moment.
WorkerHideFile ==
    \E k \in Keys, markerSize \in MarkerSizes :
        LET r == MoveFile(store, nextId, k, k \o ".fsl", 0, markerSize) IN
        /\ nextId <= MaxId
        /\ OthersRun
        /\ r.err = Nil
        /\ store' = r.store
        /\ nextId' = IdAfter(r.store)
        /\ prev' = store'
        /\ UNCHANGED last

\* The versions the DeleteFile that is followed has listed or seen uploaded.
Seen ==
    {last.entries[j].FileID : j \in 1..Len(last.entries)} \cup {u.id : u \in last.uploaded}

\* A client DeleteFile call of another worker's DeleteFile or unhiding
\* MoveFile, at any moment, on a version that worker listed.  While the
\* DeleteFile that is followed runs, the id of a version it has seen is noted.
WorkerDeleteFile ==
    \E i \in 1..Len(store) :
        /\ OthersRun
        /\ store' = ClientDeleteFile(store, store[i].FileName, store[i].FileID)
        /\ last' = IF Idle THEN last
                   ELSE [last EXCEPT !.removed = @ \cup ({store[i].FileID} \cap Seen)]
        /\ prev' = store'
        /\ UNCHANGED nextId

NextConcurrent ==
    \/ StartDeleteFossil
    \/ ListStep
    \/ WalkStep
    \/ Crash
    \/ ReturnDelete
    \/ WorkerUploadFile
    \/ WorkerHideFile
    \/ WorkerDeleteFile

SpecConcurrent == Init /\ [][NextConcurrent]_vars

\* ---------------------------------------------------------------- properties

Range(f) == {f[i] : i \in 1..Len(f)}

\* The client faults a call can meet; without one, every client call succeeded
\* or was refused by the bucket itself.
Faults == {"ListFileNames failed", "DeleteFile failed", "HideFile failed", "UploadFile failed"}

NoFault == last.err \notin Faults

HasVersions(s, name) == VersionsOf(s, name) # <<>>

Newest(s, name) == Head(VersionsOf(s, name))

IsActive(s, name) == HasVersions(s, name) /\ Newest(s, name).Action = "upload"

IsHidden(s, name) == HasVersions(s, name) /\ Newest(s, name).Action = "hide"

\* The bucket without the versions whose ids are in ids.
Without(s, ids) == SelectSeq(s, LAMBDA v : v.FileID \notin ids)

\* The ids of the versions the last call removed.
Deleted == {prev[i].FileID : i \in 1..Len(prev)} \ {store[i].FileID : i \in 1..Len(store)}

\* The position of the newest hide marker in a newest-first version list (0: none).
FirstHide(vs) ==
    IF \E m \in 1..Len(vs) : vs[m].Action = "hide"
    THEN CHOOSE m \in 1..Len(vs) :
            vs[m].Action = "hide" /\ \A j \in 1..(m - 1) : vs[j].Action # "hide"
    ELSE 0

\* What ListFiles("chunks") returns on bucket s when the client call succeeds.
ChunkListing(s) == CHOOSE r \in ListFiles(s, "chunks", 0) : TRUE

\* The logical name of a chunk key inside "chunks".
Base(k) == SliceFrom(k, Len("chunks/"))

DeleteCalls(calls) == {i \in 1..Len(calls) : calls[i].op = "DeleteFile"}

\* The last call was op, it has returned, and no client call of another worker
\* reached the bucket while it ran: the call alone made store of prev.
RanAlone(op) == last.op = op /\ last.pc # "walk" /\ ~last.landed

\* The last call was MoveFile(n, n + ".fsl") on a chunk key n whose newest
\* version was an upload, and it returned nil.
HidActive ==
    /\ RanAlone("MoveFile")
    /\ last.a \in Keys
    /\ last.b = last.a \o ".fsl"
    /\ last.err = Nil
    /\ IsActive(prev, last.a)

\* C1: a DeleteFile of the fossil n.fsl that returns nil has deleted the newest
\* hide marker of n and every version of n older than it, and nothing else: no
\* version of n newer than the marker (a newer upload is then the newest
\* version of n) and no version of another name.
\* The call is one that ran alone: the bucket is compared with the one it
\* started from, which no client call of another worker reached meanwhile.
C1_FossilDeleteChain ==
    (RanAlone("DeleteFile") /\ HasSuffix(last.a, ".fsl") /\ last.err = Nil) =>
        LET n == StripFsl(last.a)
            vs == VersionsOf(prev, n)
            m == FirstHide(vs)
        IN  m > 0 =>
              /\ store = Without(prev, {vs[j].FileID : j \in m..Len(vs)})
              /\ \A j \in 1..(m - 1) : \E i \in 1..Len(store) : store[i] = vs[j]
              /\ m > 1 => (HasVersions(store, n) /\ Newest(store, n) = vs[1])
              /\ \A k \in Keys \ {n} : VersionsOf(store, k) = VersionsOf(prev, k)

\* C1 witness: a fossil delete returned nil where the marker had an older
\* version beneath it, a newer upload above it, and another key had versions.
C1_Witness ==
    /\ RanAlone("DeleteFile") /\ HasSuffix(last.a, ".fsl") /\ last.err = Nil
    /\ LET n == StripFsl(last.a)
           vs == VersionsOf(prev, n)
           m == FirstHide(vs)
       IN  /\ m > 1
           /\ m < Len(vs)
           /\ \E k \in Keys \ {n} : HasVersions(prev, k)
           /\ Cardinality(Deleted) >= 2

\* C2: after a hide of a chunk n whose newest version was active returned nil,
\* ListFiles("chunks") lists n.fsl and does not list n.
C2_HideListed ==
    HidActive =>
        LET files == Range(ChunkListing(store).files) IN
        /\ (Base(last.a) \o ".fsl") \in files
        /\ Base(last.a) \notin files

\* C2 witness: such a hide, of a chunk with an older version, next to another chunk.
C2_Witness ==
    /\ HidActive
    /\ Len(VersionsOf(prev, last.a)) >= 2
    /\ \E k \in Keys \ {last.a} : HasVersions(prev, k)

\* C3: after such a hide, GetFileInfo(n) reports exists=false and
\* GetFileInfo(n.fsl) reports exists=true with the size field of the new hide
\* marker, which is the newest version of n; both with a nil error.
C3_HideStat ==
    HidActive =>
        LET live == GetFileInfo(store, last.a, 0)
            fossil == GetFileInfo(store, last.a \o ".fsl", 0)
            marker == Newest(store, last.a)
        IN  /\ live.exist = FALSE /\ live.err = Nil
            /\ fossil.exist = TRUE /\ fossil.err = Nil
            /\ marker.Action = "hide"
            /\ marker.FileID \notin {prev[i].FileID : i \in 1..Len(prev)}
            /\ fossil.size = marker.Size

\* C3 witness: such a hide where the new marker carries a size field other
\* than zero and other than the size of the version it hides.
C3_Witness ==
    /\ HidActive
    /\ Newest(store, last.a).Size # 0
    /\ Newest(prev, last.a).Size # Newest(store, last.a).Size

\* The last call was MoveFile(n + ".fsl", n).
Unhid == RanAlone("MoveFile") /\ last.a = last.b \o ".fsl"

\* The bucket the unhide started from is one a hide of the active version v
\* leaves when no upload of n follows: the marker is the newest version of n
\* and v lies right beneath it.
MarkerOnActive(s, n) ==
    LET vs == VersionsOf(s, n) IN
    Len(vs) >= 2 /\ vs[1].Action = "hide" /\ vs[2].Action = "upload"

\* C4: hide of n (newest version the upload v) followed by unhide of n, with no
\* upload of n in between: GetFileInfo(n) reports exists=true with the size of
\* v, v is again the newest version of n, and n.fsl is not listed in "chunks".
\* The call is one that ran alone: the bucket is compared with the one it
\* started from, which no client call of another worker reached meanwhile.
C4_HideUnhide ==
    (Unhid /\ last.b \in Keys /\ last.err = Nil /\ MarkerOnActive(prev, last.b)) =>
        LET n == last.b
            v == VersionsOf(prev, n)[2]
            info == GetFileInfo(store, n, 0)
        IN  /\ info.exist = TRUE /\ info.err = Nil /\ info.size = v.Size
            /\ Newest(store, n) = v
            /\ (Base(n) \o ".fsl") \notin Range(ChunkListing(store).files)

\* C4 witness: an unhide returned nil on a marker lying on an upload that has
\* an older version of another size beneath it.
C4_Witness ==
    /\ Unhid /\ last.b \in Keys /\ last.err = Nil /\ MarkerOnActive(prev, last.b)
    /\ LET vs == VersionsOf(prev, last.b) IN
       Len(vs) >= 3 /\ vs[3].Size # vs[2].Size

\* The last call was DeleteFile on a path that is no fossil.
DeletedNormal == RanAlone("DeleteFile") /\ ~HasSuffix(last.a, ".fsl")

\* C5: DeleteFile(n) of a path n that is no fossil and has no version returns
\* nil (when the listing call succeeds), issues no delete call and leaves the
\* bucket unchanged, also when a key with n as a proper prefix has versions.
\* The call is one that ran alone: the bucket is compared with the one it
\* started from, which no client call of another worker reached meanwhile.
C5_DeleteAbsent ==
    (DeletedNormal /\ ~HasVersions(prev, last.a)) =>
        /\ NoFault => last.err = Nil
        /\ DeleteCalls(last.calls) = {}
        /\ store = prev

\* C5 witness: such a delete returned nil while a key having n as a proper
\* prefix had versions.
C5_Witness ==
    /\ DeletedNormal /\ ~HasVersions(prev, last.a) /\ last.err = Nil
    /\ \E k \in Keys : k # last.a /\ HasPrefix(k, last.a) /\ HasVersions(prev, k)

\* C6 as claimed: DeleteFile(n) of a path n that is no fossil and has a
\* version deletes exactly the newest version of n, be it an upload or a hide
\* marker, and nothing else.
\* The call is one that ran alone: the bucket is compared with the one it
\* started from, which no client call of another worker reached meanwhile.
C6_Claimed ==
    (DeletedNormal /\ HasVersions(prev, last.a) /\ last.err = Nil) =>
        store = Without(prev, {Newest(prev, last.a).FileID})

\* C6 amended: DeleteFile(n) that returns nil deletes exactly the newest
\* version of n when that version is an upload, and issues no delete call and
\* deletes nothing when it is a hide marker.
\* The call is one that ran alone: the bucket is compared with the one it
\* started from, which no client call of another worker reached meanwhile.
C6_DeleteNewestActive ==
    (DeletedNormal /\ HasVersions(prev, last.a) /\ last.err = Nil) =>
        IF IsActive(prev, last.a)
        THEN /\ store = Without(prev, {Newest(prev, last.a).FileID})
             /\ Cardinality(Deleted) = 1
             /\ Cardinality(DeleteCalls(last.calls)) = 1
        ELSE /\ store = prev
             /\ DeleteCalls(last.calls) = {}

\* C6 witness: a delete that returned nil on a path whose newest version is a
\* hide marker with an older version beneath it, next to versions of another key.
C6_Witness ==
    /\ DeletedNormal /\ last.err = Nil
    /\ Len(VersionsOf(prev, last.a)) >= 2
    /\ \E k \in Keys \ {last.a} : HasVersions(prev, k)
    /\ IsHidden(prev, last.a)

\* The last call was MoveFile(from, from + ".fsl").
HidePair == RanAlone("MoveFile") /\ last.b = last.a \o ".fsl"

\* C7 as claimed: MoveFile(from, from + ".fsl"), also for a from that ends in
\* ".fsl", never takes the fatal path; it issues exactly one HideFile call on
\* from and no other client call, loses no version, and (when the call
\* returns nil) the bucket has gained one hide marker for from.
C7_Claimed ==
    HidePair =>
        /\ ~last.fatal
        /\ last.calls = <<HideCall(last.a)>>
        /\ Deleted = {}
        /\ last.err = Nil => (Len(store) = Len(prev) + 1 /\ IsHidden(store, last.a))

\* C7 amended: for from that is not empty and does not end in ".fsl",
\* MoveFile(from, from + ".fsl") is not fatal, issues exactly one HideFile
\* call on from and no other client call, returns that call's error, and
\* loses no version; when it returns nil the bucket has gained exactly one
\* version, a hide marker that is the newest version of from.  For from
\* empty or ending in ".fsl" the call is fatal and issues no client call.
C7_HideCall ==
    HidePair =>
        IF last.a # "" /\ ~HasSuffix(last.a, ".fsl")
        THEN /\ ~last.fatal
             /\ last.calls = <<HideCall(last.a)>>
             /\ Deleted = {}
             /\ last.err \in {Nil, "HideFile failed", "HideFile: not present"}
             /\ IF last.err = Nil
                THEN /\ store = Append(prev, Newest(store, last.a))
                     /\ IsHidden(store, last.a)
                     /\ Newest(store, last.a).FileID
                            \notin {prev[i].FileID : i \in 1..Len(prev)}
                ELSE store = prev
        ELSE /\ last.fatal
             /\ last.calls = <<>>
             /\ last.err = Nil
             /\ store = prev

\* C7 witness: a hide that returned nil on a bucket with several versions.
C7_Witness ==
    /\ HidePair /\ ~last.fatal /\ last.err = Nil
    /\ Len(prev) >= 2 /\ Len(store) = Len(prev) + 1

\* C7 witness of the fatal case: from ends in ".fsl" and the bucket is not empty.
C7_WitnessFatal ==
    /\ HidePair /\ HasSuffix(last.a, ".fsl") /\ last.fatal
    /\ Len(prev) >= 1

\* C8: MoveFile(from, to) with neither to = from + ".fsl" nor
\* from = to + ".fsl" is fatal, issues no client call, leaves the bucket
\* unchanged and returns no error value.
C8_UnrelatedFatal ==
    (RanAlone("MoveFile") /\ last.b # last.a \o ".fsl" /\ last.a # last.b \o ".fsl") =>
        /\ last.fatal
        /\ last.calls = <<>>
        /\ store = prev
        /\ last.err = Nil

\* C8 witness: such a call, with one path ending in ".fsl", on a bucket where
\* the source has an active version.
C8_Witness ==
    /\ RanAlone("MoveFile") /\ last.b # last.a \o ".fsl" /\ last.a # last.b \o ".fsl"
    /\ HasSuffix(last.b, ".fsl")
    /\ IsActive(prev, last.a)
    /\ last.fatal

\* C9: MoveFile(n + ".fsl", n) deletes at most one version; when the newest
\* version of n is a hide marker (and the client calls succeed) it deletes
\* exactly that marker and the version beneath becomes the newest; when n has
\* no version or its newest version is an upload it returns nil and leaves
\* the bucket unchanged.
\* The call is one that ran alone: the bucket is compared with the one it
\* started from, which no client call of another worker reached meanwhile.
C9_UnhideFrame ==
    Unhid =>
        /\ Cardinality(Deleted) <= 1
        /\ Len(store) = Len(prev) - Cardinality(Deleted)
        /\ IF IsHidden(prev, last.b)
           THEN NoFault =>
                  /\ last.err = Nil
                  /\ store = Without(prev, {Newest(prev, last.b).FileID})
                  /\ Len(VersionsOf(prev, last.b)) >= 2 =>
                        Newest(store, last.b) = VersionsOf(prev, last.b)[2]
           ELSE /\ store = prev
                /\ NoFault => last.err = Nil

\* C9 witness: an unhide that deleted the marker of one key while another key
\* carried a marker too.
C9_Witness ==
    /\ Unhid /\ IsHidden(prev, last.b) /\ last.err = Nil
    /\ Cardinality(Deleted) = 1
    /\ \E k \in Keys \ {last.b} : IsHidden(prev, k)

\* C9 witness of the no-op: an unhide of a key whose newest version is an upload.
C9_WitnessActive ==
    /\ Unhid /\ IsActive(prev, last.b) /\ last.err = Nil
    /\ Len(VersionsOf(prev, last.b)) >= 2

\* C10: in every bucket the calls reach, for every chunk key n: "chunks" lists
\* n.fsl exactly when GetFileInfo(n.fsl) reports exists=true, lists n exactly
\* when GetFileInfo(n) reports exists=true, and never lists both.
C10_ListStatAgree ==
    LET files == Range(ChunkListing(store).files) IN
    \A k \in Keys :
        /\ ((Base(k) \o ".fsl") \in files) = GetFileInfo(store, k \o ".fsl", 0).exist
        /\ (Base(k) \in files) = GetFileInfo(store, k, 0).exist
        /\ ~((Base(k) \in files) /\ ((Base(k) \o ".fsl") \in files))

\* C10 witness: after a call, one chunk is a fossil with two uploads beneath
\* its marker and another chunk is live.
C10_Witness ==
    /\ last.op \in {"UploadFile", "MoveFile", "DeleteFile"}
    /\ \E k1, k2 \in Keys :
        /\ k1 # k2
        /\ IsHidden(store, k1)
        /\ Len(VersionsOf(store, k1)) >= 3
        /\ IsActive(store, k2)

\* The positions of a name in a list.
IndicesOf(f, x) == {i \in 1..Len(f) : f[i] = x}

\* C11: after UploadFile of a chunk key n returned nil, whatever versions n had
\* before (none, older uploads, a hide marker on top), ListFiles("chunks")
\* lists the bare name of n exactly once, carries the size of the uploaded
\* version at the same index of sizes, and does not list the fossil name.
C11_UploadListed ==
    (last.op = "UploadFile" /\ last.a \in Keys /\ last.err = Nil) =>
        LET r == ChunkListing(store)
            at == IndicesOf(r.files, Base(last.a))
        IN  /\ Cardinality(at) = 1
            /\ \A i \in at : i <= Len(r.sizes) /\ r.sizes[i] = last.size
            /\ IndicesOf(r.files, Base(last.a) \o ".fsl") = {}

\* C11 witness: the upload landed on a key whose newest version was a hide
\* marker over an older upload of another size, while the other key was
\* listed as well.
C11_Witness ==
    /\ last.op = "UploadFile" /\ last.a \in Keys /\ last.err = Nil
    /\ IsHidden(prev, last.a)
    /\ \E i \in 1..Len(prev) :
          /\ prev[i].FileName = last.a
          /\ prev[i].Action = "upload"
          /\ prev[i].Size # last.size
    /\ \E k \in Keys \ {last.a} : HasVersions(store, k)

\* The last call was a DeleteFile that returned nil: the bucket is the one a
\* first DeleteFile leaves.
DeletedOnce == RanAlone("DeleteFile") /\ last.a \in Paths /\ last.err = Nil

\* The last call was MoveFile(n, n + ".fsl") on a chunk key and no client call
\* of it met a fault: the bucket is the one a first hide leaves.
HidOnce == RanAlone("MoveFile") /\ last.a \in Keys /\ last.b = last.a \o ".fsl" /\ NoFault

\* The bucket a second hide of the same name leaves, whatever size the bucket
\* gives a marker.
HideAgain == {MoveFile(store, nextId, last.a, last.b, 0, ms).store : ms \in MarkerSizes}

\* C12 as claimed: calling DeleteFile(p) a second time, or MoveFile(n, n.fsl) a
\* second time, leaves the bucket as the first call left it.
\* The call is one that ran alone: the bucket is compared with the one it
\* started from, which no client call of another worker reached meanwhile.
C12_Claimed ==
    /\ DeletedOnce => DeleteFile(store, last.a, 0).store = store
    /\ HidOnce => HideAgain = {store}

\* C12: a second DeleteFile(p) leaves the bucket as the first call left it when
\* p is a fossil path, or when the newest version of p after the first call is
\* not an upload; when an older upload lay beneath the deleted version, the
\* second DeleteFile(p) deletes exactly that version.  A second
\* MoveFile(n, n.fsl) adds no further marker and changes nothing.
\* The call is one that ran alone: the bucket is compared with the one it
\* started from, which no client call of another worker reached meanwhile.
C12_Idempotent ==
    /\ DeletedOnce =>
          LET again == DeleteFile(store, last.a, 0) IN
          /\ again.err = Nil
          /\ IF ~HasSuffix(last.a, ".fsl") /\ IsActive(store, last.a)
             THEN again.store = Without(store, {Newest(store, last.a).FileID})
             ELSE again.store = store
    /\ HidOnce => HideAgain = {store}

\* C12 witness: a fossil delete has removed a marker and a version beneath it
\* and left an upload above them, which a second call has to keep.
C12_Witness ==
    /\ DeletedOnce
    /\ HasSuffix(last.a, ".fsl")
    /\ Cardinality(Deleted) >= 2
    /\ HasVersions(store, StripFsl(last.a))

\* C12 witness of the second delete that goes further: DeleteFile(n) removed
\* the newest upload of n and an older upload of n is now the newest version.
C12_WitnessOlderUpload ==
    /\ DeletedOnce
    /\ ~HasSuffix(last.a, ".fsl")
    /\ Deleted # {}
    /\ IsActive(store, last.a)

\* C12 witness of the second hide: the first hide put a marker on n.
C12_WitnessHide == HidOnce /\ last.err = Nil /\ IsHidden(store, last.a) /\ store # prev

\* The snapshot id of a snapshot key: what lies between "snapshots/" and the
\* next slash.
SnapshotId(k) ==
    LET rest == SubSeq(k, Len("snapshots/") + 1, Len(k))
        n == CHOOSE n \in 0..Len(rest) :
                /\ n = Len(rest) \/ SubSeq(rest, n + 1, n + 1) = "/"
                /\ \A j \in 1..n : SubSeq(rest, j, j) # "/"
    IN  SubSeq(rest, 1, n)

\* The keys the client lists under "snapshots" on bucket s.
ListedSnapshotKeys(s) ==
    LET entries == ClientListFileNames(s, "snapshots", FALSE, FALSE)
    IN  {entries[i].FileName : i \in 1..Len(entries)}

\* C13: ListFiles on "snapshots", with any number of trailing slashes, returns
\* a list without duplicates whose elements are exactly the snapshot ids of
\* the listed keys, each followed by a slash, and no sizes.
C13_SnapshotDirs ==
    (last.op = "ListFiles" /\ last.a \in SnapshotDirs /\ last.err = Nil) =>
        /\ \A i, j \in 1..Len(last.files) : last.files[i] = last.files[j] => i = j
        /\ Range(last.files) = {SnapshotId(k) \o "/" : k \in ListedSnapshotKeys(prev)}
        /\ last.sizes = <<>>

\* C13 witness: the directory was given with two trailing slashes, two listed
\* keys shared one snapshot id and a third had another, and two ids came back.
C13_Witness ==
    /\ last.op = "ListFiles" /\ last.a = "snapshots//" /\ last.err = Nil
    /\ ListedSnapshotKeys(prev) = SnapshotKeys
    /\ Len(last.files) = 2

\* C14: GetFileInfo never reports a directory; on a path that is no fossil it
\* reports exists exactly when the listing succeeded and the first entry of
\* the active-only query of the single name has the path as its name, and an
\* entry of another name, such as one the path is a prefix of, gives
\* exists = false; size is 0 whenever exists is false or the error is not nil.
C14_Stat ==
    /\ last.op = "GetFileInfo" =>
          /\ last.isDir = FALSE
          /\ (~last.exist \/ last.err # Nil) => last.size = 0
          /\ ~HasSuffix(last.a, ".fsl") =>
                LET entries == ClientListFileNames(prev, last.a, TRUE, FALSE)
                IN  last.exist <=>
                      (NoFault /\ entries # <<>> /\ entries[1].FileName = last.a)
    /\ \A k \in Keys, i \in 1..Len(store) :
          store[i].FileName # k => ~StatResult(<<store[i]>>, k, FALSE, <<>>).exist

\* C14 witness: GetFileInfo("chunks/a") found nothing while "chunks/ab", which
\* has that path as a prefix, had an active version.
C14_Witness ==
    /\ last.op = "GetFileInfo" /\ last.a = "chunks/a" /\ last.err = Nil
    /\ ~last.exist
    /\ ~HasVersions(prev, "chunks/a")
    /\ IsActive(prev, "chunks/ab")

\* The upload was listed beneath a hide marker of its name: a third worker
\* hid the name after the upload landed and before the listing, and the
\* version is part of the fossil.
HiddenSince(u) ==
    \E i, j \in 1..Len(last.entries) :
        /\ i < j
        /\ last.entries[j].FileID = u.id
        /\ last.entries[i].FileName = u.name
        /\ last.entries[i].Action = "hide"

\* C15: an upload of another worker that lands while a DeleteFile of a fossil
\* runs (before its listing, between the listing and the deletes, or between
\* two deletes) is never named by a delete call of that DeleteFile, and the
\* version it created stays in the bucket.  The two calls are the claim's:
\* a version that a third worker hid before the listing is left aside, and so
\* is, for the bucket, one that a third worker's delete call removed.
C15_UploadSurvives ==
    \A u \in last.uploaded :
        ~HiddenSince(u) =>
            /\ \A c \in DeleteCalls(last.calls) : last.calls[c].id # u.id
            /\ u.id \notin last.removed =>
                  \E i \in 1..Len(store) :
                      /\ store[i].FileID = u.id
                      /\ store[i].FileName = u.name
                      /\ store[i].Action = "upload"

\* C15 witness: the DeleteFile of n.fsl returned nil after a listing and two
\* deletes, and an upload of n landed between the two deletes.
C15_Witness ==
    /\ last.op = "DeleteFile" /\ last.pc = "done" /\ last.err = Nil
    /\ Cardinality(DeleteCalls(last.calls)) >= 2
    /\ \E u \in last.uploaded : u.name = StripFsl(last.a) /\ u.at = 2

\* C15 witness of the upload that landed before the listing.
C15_WitnessBeforeListing ==
    /\ last.op = "DeleteFile" /\ last.pc = "done" /\ last.err = Nil
    /\ Cardinality(DeleteCalls(last.calls)) >= 2
    /\ \E u \in last.uploaded : u.name = StripFsl(last.a) /\ u.at = 0

\* The version is in the bucket.
Present(e) == \E i \in 1..Len(store) : store[i].FileID = e.FileID

\* No delete call of another worker has named the version since the
\* DeleteFile was called.
Spared(e) == e.FileID \notin last.removed

\* The DeleteFile that is followed step by step has made its listing.
HasListed == last.op = "DeleteFile" /\ last.pc \in {"walk", "done", "crashed"} /\ last.pos >= 1

\* C16: at every moment of a DeleteFile of a fossil after its listing (between
\* two client calls, after a crash, after a failed delete, at its return) the
\* delete calls issued so far name the listed entries from the newest hide
\* marker on, in listing order and without a gap, the marker first; the
\* versions of that chain still in the bucket are exactly its oldest ones; and
\* every listed version newer than the marker is still in the bucket.  A walk
\* that returns nil has issued the calls of the whole chain.  The bucket is
\* read without the versions the delete calls of other workers removed since
\* the DeleteFile was called.
C16_NewestFirst ==
    HasListed =>
        LET es == last.entries
            m == FirstHide(es)
            d == Len(last.calls) - 1
            gone == IF last.err = "DeleteFile failed" THEN d - 1 ELSE d
        IN  /\ m = 0 => (d = 0 /\ \A j \in 1..Len(es) : Present(es[j]) <=> Spared(es[j]))
            /\ m > 0 =>
                  /\ d <= Len(es) - m + 1
                  /\ \A c \in 1..d : last.calls[c + 1] =
                                         DeleteCall(StripFsl(last.a), es[m + c - 1].FileID)
                  /\ \A j \in m..Len(es) :
                        Present(es[j]) <=> (j >= m + gone /\ Spared(es[j]))
                  /\ \A j \in 1..(m - 1) : Present(es[j]) <=> Spared(es[j])
            /\ (last.pc = "done" /\ last.err = Nil) =>
                  last.calls = DeleteFossil(Reverse(last.entries), last.a, 0).calls

\* C16 witness: the process died after the delete of the marker, with a
\* version of the chain beneath the marker still to delete and a newer upload
\* above the marker.
C16_Witness ==
    /\ HasListed /\ last.pc = "crashed"
    /\ Len(last.calls) = 2
    /\ LET m == FirstHide(last.entries)
       IN  /\ m > 1
           /\ m < Len(last.entries)
           /\ ~Present(last.entries[m])
           /\ Present(last.entries[m + 1])

\* The error the client returns from a call that was made to fail.
ClientError(call) == call.op \o " failed"

\* C17: when a client call of an adapter call fails, that call is the last
\* client call the adapter call issues and its error is the error returned.
\* After a failed ListFileNames no HideFile or DeleteFile call was issued, the
\* bucket is unchanged and the results are empty; after a failed delete the
\* bucket has lost the versions of the deletes before it and nothing else, so
\* the version the failed call named and the ones after it remain (the bucket
\* being compared where no other worker's client call reached it meanwhile).
C17_ErrorStops ==
    last.fault > 0 =>
        /\ Len(last.calls) = last.fault
        /\ last.err = ClientError(last.calls[last.fault])
        /\ ~last.fatal
        /\ last.calls[last.fault].op = "ListFileNames" =>
              /\ last.op \in {"ListFiles", "DeleteFile", "MoveFile", "GetFileInfo"}
              /\ last.calls = <<last.calls[1]>>
              /\ store = prev
              /\ last.files = <<>> /\ last.sizes = <<>>
              /\ ~last.exist /\ last.size = 0
        /\ (last.calls[last.fault].op = "DeleteFile" /\ ~last.landed) =>
              /\ store = Without(prev, {last.calls[c].id :
                                           c \in DeleteCalls(last.calls) \ {last.fault}})
              /\ \E i \in 1..Len(store) : store[i].FileID = last.calls[last.fault].id

\* C17 witness: the second delete of a DeleteFile of a fossil failed after the
\* first one had removed the marker.
C17_Witness ==
    /\ RanAlone("DeleteFile") /\ HasSuffix(last.a, ".fsl")
    /\ last.fault = 3
    /\ last.err = "DeleteFile failed"
    /\ Cardinality(Deleted) = 1
    /\ Len(VersionsOf(store, StripFsl(last.a))) >= 1

\* C17 witness of the listing: the ListFileNames of an unhide failed on a name
\* whose newest version is a marker, which is still there.
C17_WitnessListing ==
    /\ last.op = "MoveFile" /\ last.b \in Keys /\ last.a = last.b \o ".fsl"
    /\ last.fault = 1
    /\ last.err = "ListFileNames failed"
    /\ IsHidden(store, last.b)

\* The stored names under "chunks", in the order the bucket lists them.
StoredChunkNames(s) == SelectSeq(KeyOrder, LAMBDA k : k \in Keys /\ HasVersions(s, k))

\* The last call was a ListFiles of "chunks" that returned nil.
ListedChunks == last.op = "ListFiles" /\ TrimSlashes(last.a) = "chunks" /\ last.err = Nil

\* C18: ListFiles("chunks") returns one logical name per stored name, in the
\* order of the entries, decided by the newest version of the name alone (the
\* fossil name when that is a hide marker, the bare name otherwise), and a
\* list of sizes of the same length whose i-th element is the Size field of
\* the newest version of the i-th name.
C18_ChunkList ==
    ListedChunks =>
        LET names == StoredChunkNames(prev) IN
        /\ Len(last.files) = Len(names)
        /\ Len(last.sizes) = Len(names)
        /\ \A i \in 1..Len(names) :
              /\ last.files[i] = IF Newest(prev, names[i]).Action = "hide"
                                 THEN Base(names[i]) \o ".fsl"
                                 ELSE Base(names[i])
              /\ last.sizes[i] = Newest(prev, names[i]).Size

\* C18 witness: two names were listed, one whose newest version is a hide
\* marker and one with two uploads of different sizes.
C18_Witness ==
    /\ ListedChunks
    /\ Len(last.files) = 2
    /\ \E k \in Keys : IsHidden(prev, k)
    /\ \E k \in Keys :
          /\ IsActive(prev, k)
          /\ \E i \in 1..Len(prev) :
                prev[i].FileName = k /\ prev[i].Size # Newest(prev, k).Size

\* The client calls that change the bucket.
MutatingCalls(calls) ==
    {i \in 1..Len(calls) : calls[i].op \in {"UploadFile", "HideFile", "DeleteFile"}}

\* C19: ListFiles, GetFileInfo and CreateDirectory leave the bucket as it was
\* and issue no UploadFile, HideFile or DeleteFile call; CreateDirectory
\* issues no client call at all and returns nil.
C19_ReadOnly ==
    /\ last.op \in {"ListFiles", "GetFileInfo", "CreateDirectory"} =>
          /\ store = prev
          /\ MutatingCalls(last.calls) = {}
    /\ last.op = "CreateDirectory" => (last.calls = <<>> /\ last.err = Nil)

\* C19 witness: CreateDirectory was called on a bucket that holds versions.
C19_Witness ==
    /\ last.op = "CreateDirectory"
    /\ Len(store) >= 2
    /\ last.err = Nil

\* C19 witness of the two queries: each was called on a bucket with versions
\* and issued its listing.
C19_WitnessQuery ==
    /\ last.op \in {"ListFiles", "GetFileInfo"}
    /\ Len(store) >= 2
    /\ Len(last.calls) = 1

\* The rates the last call handed on: to the client's UploadFile, or to the
\* rate-limited copy of a download.
RatesPassed ==
    {last.calls[i].rateLimit :
        i \in {j \in 1..Len(last.calls) : last.calls[j].op \in {"UploadFile", "RateLimitedCopy"}}}

\* C20: with a limit L >= 0 and T >= 1 threads, the rate UploadFile passes to
\* the client, and the rate DownloadFile copies with, is the integer quotient
\* L div T, the thread count times that rate does not exceed L, and a
\* positive L gives a positive rate.
C20_Claimed ==
    last.op \in {"UploadFile", "DownloadFile"} /\ last.limit >= 0 =>
        \A rate \in RatesPassed :
            /\ rate = last.limit \div last.nThreads
            /\ last.nThreads * rate <= last.limit
            /\ last.limit > 0 => rate > 0

\* C20, the part that holds: the rate is the integer quotient and the thread
\* count times the rate does not exceed the limit.
C20_Quotient ==
    last.op \in {"UploadFile", "DownloadFile"} /\ last.limit >= 0 =>
        /\ (last.op = "UploadFile" \/ last.fault = 2
               \/ (last.err = Nil /\ last.pc # "walk")) => RatesPassed # {}
        /\ \A rate \in RatesPassed :
              /\ rate = last.limit \div last.nThreads
              /\ last.nThreads * rate <= last.limit
              /\ rate >= 0

\* C20 witness: a positive limit below the thread count was handed on as rate 0.
C20_Witness ==
    /\ last.op = "UploadFile" /\ last.err = Nil
    /\ last.limit > 0
    /\ RatesPassed = {0}
====
